---- MODULE Spec2Model ----
(***************************************************************************)
(* Resilient data-access layer of the Jeelani Textiles storefront.         *)
(*                                                                         *)
(* The repository holds two implementations of the layer:                  *)
(*   "v3"  src/js/firebase.js        (version 3.0.0, imported by init.js)  *)
(*   "v2"  src/unnamed/part_003      (version 2.0.0 of the same file)      *)
(* The variable impl selects the implementation a behaviour runs; it is    *)
(* chosen in Init and never changes.                                       *)
(*                                                                         *)
(* Time is discrete: one tick of now is the resolution of Date.now() in    *)
(* the model.  Token amounts are counted in units of 1/Scale token, and    *)
(* one tick refills exactly one unit.                                      *)
(***************************************************************************)
EXTENDS Integers, Sequences, FiniteSets, TLC

\* ------------------------------------------------------------------ bounds
MaxTime == 2        \* last value of the clock
MaxSize == 3        \* capacity of the cache in the model
TTL == 1            \* time-to-live of a cache entry, in ticks
MaxGets == 2        \* cap on the hit/miss counters of the v2 cache
MaxTokens == 2      \* RateLimiter.maxTokens in the model
Scale == 2          \* token units per token: tokens are counted in 1/Scale
LimMaxTime == 5     \* last value of the clock in the limiter's specification
MaxRetries == 3     \* largest maxRetries a caller passes
SvcMaxTime == 2     \* last value of the clock in the service's specification
MaxCalls == 2       \* number of service calls a behaviour starts

Impls == {"v2", "v3"}
Null == "null"
Keys == {"products_docs_all", "products_docs_filtered", "products_p1", "faqs_docs_all"}
Values == {"d1", "d2"}
WriteValues == {"w1"}

VARIABLES
    impl,       \* which implementation runs
    now,        \* Date.now()
    cache,      \* LRUCache.cache: the Map, as the sequence of its entries in insertion order
    hits,       \* LRUCache.hits   (v2)
    misses,     \* LRUCache.misses (v2)
    recency,    \* observer: keys in the cache, ordered by their last successful get or set
    lastC,      \* observer: the last cache call and what it returned
    tokens,     \* RateLimiter.tokens, in units of 1/Scale token
    lastRefill, \* RateLimiter.lastRefill
    waiting,    \* callers suspended inside RateLimiter.acquire (v2): caller -> wake-up time
    lastL,      \* observer: the last limiter call and what it returned
    rPc,        \* retry loop: "idle", "attempt", "delay", "returned" or "thrown"
    rMax,       \* retry loop: maxRetries
    rIndex,     \* retry loop: i of retryWithBackoff, attempt - 1 of executeWithRetry
    rAttempts,  \* observer: number of times the operation was called
    rErrors,    \* observer: error codes of the failed attempts, in order
    rDelays,    \* observer: backoff delays taken, in order, in ms
    rThrown,    \* code of the error the loop threw
    rAsked,     \* observer: <<r>> when a read was called with options.retries = r, else <<>>
    proc,       \* service calls: caller -> position in the handler and its locals
    metrics,    \* MetricsTracker.metrics (v3); Metrics.data.cacheStats and .operations (v2)
    backendCalls, \* observer: number of Firestore calls started
    calls,      \* observer: number of service calls started
    inFlight,   \* FirebaseService.inFlightRequests (v2): the keys the Map holds
    online,     \* ConnectionMonitor.isOnline
    db,         \* OfflineQueue.db: "open" when indexedDB.open succeeded, "failed" when it did not
    store,      \* the IndexedDB object store of the queue, kept by the browser: items in key order
    nextId,     \* the key generator of the object store (autoIncrement)
    memq,       \* OfflineQueue._memoryQueue (v2)
    processing, \* OfflineQueue.processing (v2)
    drain,      \* runs of the queue processing: run -> position, items read, cursor, log
    remote,     \* the backend: the value of document products/p1
    accepted,   \* observer: numbers of the operations enqueued and not removed since, in order
    enqCount,   \* observer: number of operations enqueued so far
    restarts    \* observer: number of page reloads

cacheVars == <<cache, hits, misses, recency, lastC>>
limVars == <<tokens, lastRefill, waiting, lastL>>
retryVars == <<rPc, rMax, rIndex, rAttempts, rErrors, rDelays, rThrown, rAsked>>
svcVars == <<proc, metrics, backendCalls, calls, inFlight>>
offVars == <<online, db, store, nextId, memq, processing, drain, remote, accepted, enqCount, restarts>>
vars == <<impl, now, cacheVars, limVars, retryVars, svcVars, offVars>>

\* ------------------------------------------------------- JavaScript Map
KeysOf(c) == {c[i].key : i \in 1..Len(c)}
Has(c, k) == k \in KeysOf(c)
IndexOf(c, k) == CHOOSE i \in 1..Len(c) : c[i].key = k
Lookup(c, k) == c[IndexOf(c, k)]
MapDelete(c, k) == SelectSeq(c, LAMBDA e : e.key # k)
\* Map.prototype.set: an existing key keeps its position, a new key is appended
MapSet(c, k, e) ==
    IF Has(c, k) THEN [i \in 1..Len(c) |-> IF c[i].key = k THEN e ELSE c[i]]
    ELSE Append(c, e)
\* cache.delete(cache.keys().next().value); a no-op on an empty Map
DeleteFirst(c) == IF Len(c) = 0 THEN c ELSE Tail(c)

Entry(k, v, t) == [key |-> k, value |-> v, timestamp |-> t]

\* ------------------------------------------------------------- LRUCache
\* a TTL test that already expires an entry at age ttl
Expired_Inclusive(e, t) == t - e.timestamp >= TTL

Expired(e, t) == t - e.timestamp > TTL

\* LRUCache.get: the cache after the call, the value returned, and (v2) the counters
LRUGet(c, k, t) ==
    IF ~Has(c, k) THEN [cache |-> c, ret |-> Null, hit |-> FALSE]
    ELSE IF Expired(Lookup(c, k), t)
         THEN [cache |-> MapDelete(c, k), ret |-> Null, hit |-> FALSE]
         ELSE [cache |-> Append(MapDelete(c, k), Lookup(c, k)),
               ret |-> Lookup(c, k).value, hit |-> TRUE]

\* LRUCache.set of src/js/firebase.js
LRUSet3(c, k, v, t) ==
    MapSet(IF Len(c) >= MaxSize THEN DeleteFirst(c) ELSE c, k, Entry(k, v, t))

\* a set that appends without evicting
LRUSet2_NoEvict(c, k, v, t) ==
    MapSet(IF Has(c, k) THEN MapDelete(c, k) ELSE c, k, Entry(k, v, t))

\* LRUCache.set of part_003
LRUSet2(c, k, v, t) ==
    LET c1 == IF Has(c, k) THEN MapDelete(c, k) ELSE c
        c2 == IF Len(c1) >= MaxSize THEN DeleteFirst(c1) ELSE c1
    IN  MapSet(c2, k, Entry(k, v, t))

LRUSet(i, c, k, v, t) == IF i = "v3" THEN LRUSet3(c, k, v, t) ELSE LRUSet2(c, k, v, t)

\* LRUCache.invalidate (part_003)
LRUInvalidate(c, k) == MapDelete(c, k)

\* new RegExp(pattern).test(key) for the patterns '^<collection>_docs' the services pass
Patterns == {"^products_docs", "^faqs_docs"}
RegexTest(pattern, k) ==
    \/ pattern = "^products_docs" /\ k \in {"products_docs_all", "products_docs_filtered"}
    \/ pattern = "^faqs_docs" /\ k \in {"faqs_docs_all", "faqs_docs_filtered"}

\* LRUCache.invalidatePattern (part_003)
LRUInvalidatePattern(c, pattern) == SelectSeq(c, LAMBDA e : ~RegexTest(pattern, e.key))

\* LRUCache.clear
LRUClear(c) == <<>>

\* ------------------------------------------------------------- observers
\* recency after a successful get or set of k, restricted to the keys still stored
Touch(r, k, c) == SelectSeq(Append(SelectSeq(r, LAMBDA x : x # k), k), LAMBDA x : Has(c, x))
Forget(r, c) == SelectSeq(r, LAMBDA x : Has(c, x))

\* what the observer records of a call on key k: whether k was stored and whether
\* the cache was at capacity when the call started, and the value returned
Observed(op, k, ret) ==
    [op |-> op, key |-> k, ret |-> ret, had |-> Has(cache, k), full |-> Len(cache) >= MaxSize]
NoCall(op) == [op |-> op, key |-> Null, ret |-> Null, had |-> FALSE, full |-> FALSE]

\* ---------------------------------------------------------------- actions
Tick ==
    /\ now < MaxTime
    /\ now' = now + 1

CacheTick ==
    /\ Tick
    /\ lastC' = NoCall("tick")
    /\ UNCHANGED <<impl, cache, hits, misses, recency, limVars, retryVars, svcVars>>
    /\ UNCHANGED offVars

CacheGet(k) ==
    LET g == LRUGet(cache, k, now) IN
    /\ impl = "v2" => hits + misses < MaxGets
    /\ cache' = g.cache
    /\ hits' = IF impl = "v2" /\ g.hit THEN hits + 1 ELSE hits
    /\ misses' = IF impl = "v2" /\ ~g.hit THEN misses + 1 ELSE misses
    /\ recency' = IF g.hit THEN Touch(recency, k, g.cache) ELSE Forget(recency, g.cache)
    /\ lastC' = Observed("get", k, g.ret)
    /\ UNCHANGED <<impl, now, limVars, retryVars, svcVars>>
    /\ UNCHANGED offVars

CacheSet(k, v) ==
    /\ cache' = LRUSet(impl, cache, k, v, now)
    /\ recency' = Touch(recency, k, cache')
    /\ lastC' = Observed("set", k, Null)
    /\ UNCHANGED <<impl, now, hits, misses, limVars, retryVars, svcVars>>
    /\ UNCHANGED offVars

CacheInvalidate(k) ==
    /\ impl = "v2"
    /\ cache' = LRUInvalidate(cache, k)
    /\ recency' = Forget(recency, cache')
    /\ lastC' = Observed("invalidate", k, Null)
    /\ UNCHANGED <<impl, now, hits, misses, limVars, retryVars, svcVars>>
    /\ UNCHANGED offVars

CacheInvalidatePattern(p) ==
    /\ impl = "v2"
    /\ cache' = LRUInvalidatePattern(cache, p)
    /\ recency' = Forget(recency, cache')
    /\ lastC' = NoCall("invalidatePattern")
    /\ UNCHANGED <<impl, now, hits, misses, limVars, retryVars, svcVars>>
    /\ UNCHANGED offVars

CacheClear ==
    /\ cache' = LRUClear(cache)
    /\ recency' = <<>>
    /\ lastC' = NoCall("clear")
    /\ UNCHANGED <<impl, now, hits, misses, limVars, retryVars, svcVars>>
    /\ UNCHANGED offVars

\* new LRUCache(...)
NewCache ==
    /\ cache = <<>>
    /\ hits = 0
    /\ misses = 0
    /\ recency = <<>>
    /\ lastC = NoCall("new")

\* new RateLimiter(...)
NewLimiter ==
    /\ tokens = MaxTokens * Scale
    /\ lastRefill = now
    /\ waiting = [c \in {} |-> 0]
    /\ lastL = [op |-> "new", caller |-> Null, cost |-> 0, ret |-> Null]

\* no retry loop is running
NoRetry ==
    /\ rPc = "idle"
    /\ rMax = 0
    /\ rIndex = 0
    /\ rAttempts = 0
    /\ rErrors = <<>>
    /\ rDelays = <<>>
    /\ rThrown = Null
    /\ rAsked = <<>>

Callers == {"c1", "c2"}
NoResult == [kind |-> "none", val |-> Null]
IdleProc == [pc |-> "idle", op |-> Null, key |-> Null, val |-> Null, useCache |-> FALSE,
             idx |-> 0, ret |-> NoResult]

ZeroMetrics == [cacheHits |-> 0, cacheMisses |-> 0, networkRequests |-> 0,
                networkErrors |-> 0, rateLimitHits |-> 0,
                statsHits |-> 0, statsMisses |-> 0, opCount |-> 0, opErrors |-> 0,
                queued |-> 0]

\* no service call is running; new MetricsTracker() / new Metrics()
NoService ==
    /\ proc = [c \in Callers |-> IdleProc]
    /\ metrics = ZeroMetrics
    /\ backendCalls = 0
    /\ calls = 0
    /\ inFlight = {}

Runs == {"g1", "g2"}
IdleRun == [pc |-> "idle", items |-> <<>>, i |-> 0, log |-> <<>>]

\* the page is online and the queue's database is open and empty
Connected ==
    /\ online = TRUE
    /\ db = "open"
    /\ store = <<>>
    /\ nextId = 1
    /\ memq = <<>>
    /\ processing = FALSE
    /\ drain = [d \in Runs |-> IdleRun]
    /\ remote = Null
    /\ accepted = <<>>
    /\ enqCount = 0
    /\ restarts = 0

CacheInit ==
    /\ impl \in Impls
    /\ now = 0
    /\ NewCache
    /\ NewLimiter
    /\ NoRetry
    /\ NoService
    /\ Connected

CacheNext ==
    \/ CacheTick
    \/ \E k \in Keys : CacheGet(k)
    \/ \E k \in Keys : \E v \in Values : CacheSet(k, v)
    \/ \E k \in Keys : CacheInvalidate(k)
    \/ \E p \in Patterns : CacheInvalidatePattern(p)
    \/ CacheClear

SpecCache == CacheInit /\ [][CacheNext]_vars

\* ============================================================== RateLimiter
Min(a, b) == IF a <= b THEN a ELSE b
Capacity == MaxTokens * Scale
Costs == 1..MaxTokens

\* RateLimiter.refill: the tokens after the refill (lastRefill becomes now).
\* One tick adds one unit: timePassed * refillRate, in units of 1/Scale token.
Refill(tok, last, t) == Min(Capacity, tok + (t - last))

\* RateLimiter.tryAcquire(cost) of src/js/firebase.js: the value returned and the tokens left
TryAcquireOp(tok, last, t, cost) ==
    LET refilled == Refill(tok, last, t) IN
    IF refilled >= cost * Scale
    THEN [ok |-> TRUE, tokens |-> refilled - cost * Scale]
    ELSE [ok |-> FALSE, tokens |-> refilled]

TryAcquire(c, cost) ==
    LET a == TryAcquireOp(tokens, lastRefill, now, cost) IN
    /\ impl = "v3"
    /\ lastRefill' = now
    /\ tokens' = a.tokens
    /\ lastL' = [op |-> "acquire", caller |-> c, cost |-> cost,
                 ret |-> IF a.ok THEN "true" ELSE "false"]
    /\ UNCHANGED <<impl, now, waiting, cacheVars, retryVars, svcVars>>
    /\ UNCHANGED offVars

\* RateLimiter.reset of src/js/firebase.js
LimiterReset ==
    /\ impl = "v3"
    /\ tokens' = Capacity
    /\ lastRefill' = now
    /\ lastL' = [op |-> "reset", caller |-> Null, cost |-> 0, ret |-> Null]
    /\ UNCHANGED <<impl, now, waiting, cacheVars, retryVars, svcVars>>
    /\ UNCHANGED offVars

\* waitTime of RateLimiter.acquire: (1 / refillRate) * 1000 ms, in ticks
WaitTime == Scale

Suspend(w, c, t) == [x \in DOMAIN w \cup {c} |-> IF x = c THEN t ELSE w[x]]
Wake(w, c) == [x \in DOMAIN w \ {c} |-> w[x]]

\* RateLimiter.acquire of part_003, up to its return or its await:
\* whether it returned at once, and the tokens left
AcquireOp(tok, last, t) ==
    LET refilled == Refill(tok, last, t) IN
    IF refilled >= 1 * Scale
    THEN [ok |-> TRUE, tokens |-> refilled - 1 * Scale]
    ELSE [ok |-> FALSE, tokens |-> refilled]

\* RateLimiter.acquire of part_003, after its await: refill, then take one token
ResumeOp(tok, last, t) == Refill(tok, last, t) - 1 * Scale

AcquireStart(c) ==
    LET a == AcquireOp(tokens, lastRefill, now) IN
    /\ impl = "v2"
    /\ c \notin DOMAIN waiting
    /\ lastRefill' = now
    /\ tokens' = a.tokens
    /\ waiting' = IF a.ok THEN waiting ELSE Suspend(waiting, c, now + WaitTime)
    /\ lastL' = [op |-> "acquire", caller |-> c, cost |-> 1,
                 ret |-> IF a.ok THEN "true" ELSE "pending"]
    /\ UNCHANGED <<impl, now, cacheVars, retryVars, svcVars>>
    /\ UNCHANGED offVars

\* RateLimiter.acquire of part_003, from the timer's callback to the return
AcquireResume(c) ==
    /\ impl = "v2"
    /\ c \in DOMAIN waiting
    /\ now >= waiting[c]
    /\ tokens' = ResumeOp(tokens, lastRefill, now)
    /\ lastRefill' = now
    /\ waiting' = Wake(waiting, c)
    /\ lastL' = [op |-> "resume", caller |-> c, cost |-> 1, ret |-> "true"]
    /\ UNCHANGED <<impl, now, cacheVars, retryVars, svcVars>>
    /\ UNCHANGED offVars

LimiterTick ==
    /\ now < LimMaxTime
    /\ now' = now + 1
    /\ lastL' = [op |-> "tick", caller |-> Null, cost |-> 0, ret |-> Null]
    /\ UNCHANGED <<impl, tokens, lastRefill, waiting, cacheVars, retryVars, svcVars>>
    /\ UNCHANGED offVars

LimiterInit ==
    /\ impl \in Impls
    /\ now = 0
    /\ NewCache
    /\ NewLimiter
    /\ NoRetry
    /\ NoService
    /\ Connected

LimiterNext ==
    \/ LimiterTick
    \/ \E c \in Callers : \E cost \in Costs : TryAcquire(c, cost)
    \/ LimiterReset
    \/ \E c \in Callers : AcquireStart(c)
    \/ \E c \in Callers : AcquireResume(c)

SpecLimiter == LimiterInit /\ [][LimiterNext]_vars

\* ============================================================== retry policy
BaseDelay == 1000
\* the default of `options.retries || 3` in executeWithCache; getAllProducts passes 3
SvcRetries == 3

\* error.code of a failed backend call
Codes == {"permission-denied", "unauthenticated", "invalid-argument",
          "unavailable", "deadline-exceeded", "resource-exhausted", "internal"}

\* a terminal set that forgot invalid-argument
NoRetryCodes3_Short == {"permission-denied", "unauthenticated"}

\* retryWithBackoff: the codes it does not retry
NoRetryCodes3 == {"permission-denied", "unauthenticated", "invalid-argument"}

\* executeWithRetry: the codes it retries
RetryableCodes2 == {"unavailable", "deadline-exceeded", "resource-exhausted"}

\* does the catch block rethrow this error at once, whatever the attempt number
ThrowsAtOnce(i, code) ==
    IF i = "v3" THEN code \in NoRetryCodes3 ELSE code \notin RetryableCodes2

\* is this the last iteration of the loop
LastAttempt(idx, max) == idx >= max - 1

\* the backoff after the failure of iteration idx
Backoff(idx) == BaseDelay * 2^idx

\* retryWithBackoff(fn, maxRetries) / executeWithRetry(operation, {maxRetries}) is called
RetryCall(m) ==
    /\ rPc = "idle"
    /\ rPc' = "attempt"
    /\ rMax' = m
    /\ rIndex' = 0
    /\ UNCHANGED <<rAttempts, rErrors, rDelays, rThrown, rAsked>>
    /\ UNCHANGED <<impl, now, cacheVars, limVars, svcVars>>
    /\ UNCHANGED offVars

\* `options.retries || 3` of executeWithCache: 0 and undefined are falsy
OrDefault(r) == IF r = 0 THEN SvcRetries ELSE r

\* executeWithCache(cacheKey, operation, {retries: r}) of src/js/firebase.js, past the
\* cache and the limiter: retryWithBackoff(operation, options.retries || 3) is called
ReadCall(r) ==
    /\ impl = "v3"
    /\ rPc = "idle"
    /\ rPc' = "attempt"
    /\ rMax' = OrDefault(r)
    /\ rIndex' = 0
    /\ rAsked' = <<r>>
    /\ UNCHANGED <<rAttempts, rErrors, rDelays, rThrown>>
    /\ UNCHANGED <<impl, now, cacheVars, limVars, svcVars>>
    /\ UNCHANGED offVars

\* await fn() resolves
AttemptSucceeds ==
    /\ rPc = "attempt"
    /\ rAttempts' = rAttempts + 1
    /\ rPc' = "returned"
    /\ UNCHANGED <<rMax, rIndex, rErrors, rDelays, rThrown, rAsked>>
    /\ UNCHANGED <<impl, now, cacheVars, limVars, svcVars>>
    /\ UNCHANGED offVars

\* await fn() rejects with error.code = code: the catch block
AttemptFails(code) ==
    /\ rPc = "attempt"
    /\ rAttempts' = rAttempts + 1
    /\ rErrors' = Append(rErrors, code)
    /\ IF ThrowsAtOnce(impl, code) \/ LastAttempt(rIndex, rMax)
       THEN /\ rPc' = "thrown"
            /\ rThrown' = code
            /\ rDelays' = rDelays
       ELSE /\ rPc' = "delay"
            /\ rThrown' = rThrown
            /\ rDelays' = Append(rDelays, Backoff(rIndex))
    /\ UNCHANGED <<rMax, rIndex, rAsked>>
    /\ UNCHANGED <<impl, now, cacheVars, limVars, svcVars>>
    /\ UNCHANGED offVars

\* the backoff timer fires: next iteration
DelayElapses ==
    /\ rPc = "delay"
    /\ rPc' = "attempt"
    /\ rIndex' = rIndex + 1
    /\ UNCHANGED <<rMax, rAttempts, rErrors, rDelays, rThrown, rAsked>>
    /\ UNCHANGED <<impl, now, cacheVars, limVars, svcVars>>
    /\ UNCHANGED offVars

RetryInit ==
    /\ impl \in Impls
    /\ now = 0
    /\ NewCache
    /\ NewLimiter
    /\ NoRetry
    /\ NoService
    /\ Connected

RetryNext ==
    \/ \E m \in 1..MaxRetries : RetryCall(m)
    \/ \E r \in 0..MaxRetries : ReadCall(r)
    \/ AttemptSucceeds
    \/ \E code \in Codes : AttemptFails(code)
    \/ DelayElapses

SpecRetry == RetryInit /\ [][RetryNext]_vars

\* ================================================================== services
\* Cache keys are opaque to the cache.  In src/js/firebase.js the key named here
\* "products_docs_all" is 'products:all', "products_p1" is 'product:p1' and
\* "contacts_all" is 'contacts:all'; part_003 builds '<collection>_docs_all',
\* '<collection>_docs_filtered' and '<collection>_<docId>'.
\* the executeWithCache calls of the v3 services: getAllProducts, getProductById, getAllContacts
Reads3 == {[key |-> "products_docs_all", useCache |-> TRUE],
           [key |-> "products_p1", useCache |-> TRUE],
           [key |-> "contacts_all", useCache |-> FALSE]}

\* the cache keys of FirebaseService.getDocs(queryFn) of part_003
GetDocsKeys == {"products_docs_all", "products_docs_filtered"}

\* error codes of the backend in the service's specification: one that both retry
\* loops rethrow, one that both retry, one that only retryWithBackoff retries
SvcCodes == {"permission-denied", "unavailable", "internal"}

Bump(m, f) == [m EXCEPT ![f] = @ + 1]
Value(v) == [kind |-> "value", val |-> v]
Failure(kind, code) == [kind |-> kind, val |-> code]
Done(p, result) == [proc EXCEPT ![p].pc = "done", ![p].ret = result]

\* a cache check that never finds anything
Truthy_Never(v) == FALSE

\* JavaScript truthiness of what cache.get returned: `if (cached)`
Truthy(v) == v # Null

SvcTick ==
    /\ now < SvcMaxTime
    /\ now' = now + 1
    /\ UNCHANGED <<impl, cacheVars, limVars, retryVars, svcVars>>
    /\ UNCHANGED offVars

\* the query a read was called with, kept with the call (an observer; Null for a
\* read the model gives no query)
QueryArg(r) == IF "query" \in DOMAIN r THEN r.query ELSE Null

\* FirebaseService.executeWithCache of src/js/firebase.js, from the call to its
\* return, its throw, or the await of the first backend attempt
ExecuteWithCache(p, r) ==
    LET g == LRUGet(cache, r.key, now)
        hit == r.useCache /\ Truthy(g.ret)
        a == TryAcquireOp(tokens, lastRefill, now, 1)
        m1 == IF r.useCache THEN Bump(metrics, "cacheMisses") ELSE metrics
    IN
    /\ impl = "v3"
    /\ db = "open"
    /\ proc[p].pc = "idle"
    /\ calls < MaxCalls
    /\ calls' = calls + 1
    /\ cache' = IF r.useCache THEN g.cache ELSE cache
    /\ IF hit
       THEN /\ metrics' = Bump(metrics, "cacheHits")
            /\ proc' = [proc EXCEPT ![p] = [pc |-> "done", op |-> "read", key |-> r.key, val |-> QueryArg(r),
                                            useCache |-> r.useCache, idx |-> 0, ret |-> Value(g.ret)]]
            /\ UNCHANGED <<tokens, lastRefill, backendCalls>>
       ELSE /\ tokens' = a.tokens
            /\ lastRefill' = now
            /\ IF a.ok
               THEN /\ metrics' = Bump(m1, "networkRequests")
                    /\ backendCalls' = backendCalls + 1
                    /\ proc' = [proc EXCEPT ![p] = [pc |-> "attempt", op |-> "read", key |-> r.key, val |-> QueryArg(r),
                                                    useCache |-> r.useCache, idx |-> 0, ret |-> NoResult]]
               ELSE /\ metrics' = Bump(m1, "rateLimitHits")
                    /\ backendCalls' = backendCalls
                    /\ proc' = [proc EXCEPT ![p] = [pc |-> "done", op |-> "read", key |-> r.key, val |-> QueryArg(r),
                                                    useCache |-> r.useCache, idx |-> 0,
                                                    ret |-> Failure("RateLimitError", Null)]]
    /\ UNCHANGED <<impl, now, hits, misses, recency, lastC, waiting, lastL, retryVars, inFlight>>
    /\ UNCHANGED offVars

\* FirebaseService.getDocs of part_003, up to `await this.ensureFirestore()`
GetDocs(p, k) ==
    /\ impl = "v2"
    /\ proc[p].pc = "idle"
    /\ calls < MaxCalls
    /\ calls' = calls + 1
    /\ proc' = [proc EXCEPT ![p] = [pc |-> "ensure", op |-> "read", key |-> k, val |-> Null,
                                    useCache |-> TRUE, idx |-> 0, ret |-> NoResult]]
    /\ UNCHANGED <<impl, now, cacheVars, limVars, retryVars, metrics, backendCalls, inFlight>>
    /\ UNCHANGED offVars

\* getDocs of part_003: the cache check, and on a miss rateLimiter.acquire() up to
\* its return or its await
GetDocsCheck(p) ==
    LET g == LRUGet(cache, proc[p].key, now)
        a == AcquireOp(tokens, lastRefill, now)
    IN
    /\ impl = "v2"
    /\ proc[p].pc = "ensure"
    /\ cache' = g.cache
    /\ hits' = IF g.hit THEN hits + 1 ELSE hits
    /\ misses' = IF g.hit THEN misses ELSE misses + 1
    /\ IF Truthy(g.ret)
       THEN /\ metrics' = [metrics EXCEPT !.statsHits = hits', !.statsMisses = misses']
            /\ proc' = Done(p, Value(g.ret))
            /\ UNCHANGED <<tokens, lastRefill, waiting>>
       ELSE /\ metrics' = metrics
            /\ tokens' = a.tokens
            /\ lastRefill' = now
            /\ waiting' = IF a.ok THEN waiting ELSE Suspend(waiting, p, now + WaitTime)
            /\ proc' = [proc EXCEPT ![p].pc = IF a.ok THEN "acquired" ELSE "waiting"]
    /\ UNCHANGED <<impl, now, recency, lastC, lastL, retryVars, backendCalls, calls, inFlight>>
    /\ UNCHANGED offVars

\* getDocs of part_003: the timer of rateLimiter.acquire() fires
GetDocsResume(p) ==
    /\ impl = "v2"
    /\ proc[p].pc = "waiting"
    /\ now >= waiting[p]
    /\ tokens' = ResumeOp(tokens, lastRefill, now)
    /\ lastRefill' = now
    /\ waiting' = Wake(waiting, p)
    /\ proc' = [proc EXCEPT ![p].pc = "acquired"]
    /\ UNCHANGED <<impl, now, cacheVars, lastL, retryVars, metrics, backendCalls, calls, inFlight>>
    /\ UNCHANGED offVars

\* getDocs of part_003: executeWithRetry calls the operation for the first time
GetDocsFetch(p) ==
    /\ impl = "v2"
    /\ proc[p].pc = "acquired"
    /\ backendCalls' = backendCalls + 1
    /\ proc' = [proc EXCEPT ![p].pc = "attempt"]
    /\ UNCHANGED <<impl, now, cacheVars, limVars, retryVars, metrics, calls, inFlight>>
    /\ UNCHANGED offVars

\* a backend read resolves with data v: the retry loop returns, the result is cached
ReadSucceeds(p, v) ==
    /\ proc[p].pc = "attempt"
    /\ proc[p].op = "read"
    /\ cache' = IF proc[p].useCache THEN LRUSet(impl, cache, proc[p].key, v, now) ELSE cache
    /\ metrics' = IF impl = "v3" THEN metrics
                  ELSE [metrics EXCEPT !.opCount = @ + 1, !.statsHits = hits, !.statsMisses = misses]
    /\ proc' = Done(p, Value(v))
    /\ UNCHANGED <<impl, now, hits, misses, recency, lastC, limVars, retryVars, backendCalls, calls, inFlight>>
    /\ UNCHANGED offVars

\* a backend read rejects with error.code = code: the catch block of the retry
\* loop, and when it rethrows, the catch block of the service
ReadFails(p, code) ==
    /\ proc[p].pc = "attempt"
    /\ proc[p].op = "read"
    /\ IF ThrowsAtOnce(impl, code) \/ LastAttempt(proc[p].idx, SvcRetries)
       THEN /\ metrics' = IF impl = "v3" THEN Bump(metrics, "networkErrors")
                          ELSE [metrics EXCEPT !.opCount = @ + 1, !.opErrors = @ + 1]
            /\ proc' = Done(p, Failure(IF impl = "v3" THEN "NetworkError" ELSE "FirebaseError", code))
       ELSE /\ metrics' = metrics
            /\ proc' = [proc EXCEPT ![p].pc = "delay"]
    /\ UNCHANGED <<impl, now, cacheVars, limVars, retryVars, backendCalls, calls, inFlight>>
    /\ UNCHANGED offVars

\* the backoff timer of the retry loop fires: the next attempt starts
ReadRetries(p) ==
    /\ proc[p].pc = "delay"
    /\ backendCalls' = backendCalls + 1
    /\ proc' = [proc EXCEPT ![p].pc = "attempt", ![p].idx = @ + 1]
    /\ UNCHANGED <<impl, now, cacheVars, limVars, retryVars, metrics, calls, inFlight>>
    /\ UNCHANGED offVars

\* ProductService.updateProduct of src/js/firebase.js, up to `await updateDoc(...)`
UpdateProduct(p, v) ==
    /\ impl = "v3"
    /\ db = "open"
    /\ proc[p].pc = "idle"
    /\ calls < MaxCalls
    /\ calls' = calls + 1
    /\ backendCalls' = backendCalls + 1
    /\ proc' = [proc EXCEPT ![p] = [pc |-> "attempt", op |-> "update", key |-> "products_p1",
                                    val |-> v, useCache |-> FALSE, idx |-> 0, ret |-> NoResult]]
    /\ UNCHANGED <<impl, now, cacheVars, limVars, retryVars, metrics, inFlight>>
    /\ UNCHANGED offVars

\* updateProduct: updateDoc resolves, the cache entry is overwritten with null
UpdateSucceeds(p) ==
    /\ impl = "v3"
    /\ proc[p].pc = "attempt"
    /\ proc[p].op = "update"
    /\ remote' = proc[p].val
    /\ cache' = LRUSet3(cache, proc[p].key, Null, now)
    /\ proc' = Done(p, Value("ok"))
    /\ UNCHANGED <<impl, now, hits, misses, recency, lastC, limVars, retryVars, metrics, backendCalls, calls, inFlight>>
    /\ UNCHANGED <<online, db, store, nextId, memq, processing, drain, accepted, enqCount, restarts>>

\* updateProduct: updateDoc rejects, the error reaches the caller as it is
UpdateFails(p, code) ==
    /\ impl = "v3"
    /\ proc[p].pc = "attempt"
    /\ proc[p].op = "update"
    /\ proc' = Done(p, Failure("error", code))
    /\ UNCHANGED <<impl, now, cacheVars, limVars, retryVars, metrics, backendCalls, calls, inFlight>>
    /\ UNCHANGED offVars

\* FirebaseService.updateDoc of part_003 on document p1 of the products collection,
\* up to `await this.ensureFirestore()`
UpdateDoc(p, v) ==
    /\ impl = "v2"
    /\ proc[p].pc = "idle"
    /\ calls < MaxCalls
    /\ calls' = calls + 1
    /\ proc' = [proc EXCEPT ![p] = [pc |-> "wensure", op |-> "update", key |-> "products_p1",
                                    val |-> v, useCache |-> FALSE, idx |-> 0, ret |-> NoResult]]
    /\ UNCHANGED <<impl, now, cacheVars, limVars, retryVars, metrics, backendCalls, inFlight>>
    /\ UNCHANGED offVars

\* updateDoc of part_003: the test of connectionMonitor.isOnline; offline it goes on
\* to offlineQueue.add, online to rateLimiter.acquire() up to its return or its await
UpdateDocCheck(p) ==
    LET a == AcquireOp(tokens, lastRefill, now) IN
    /\ impl = "v2"
    /\ proc[p].pc = "wensure"
    /\ IF ~online
       THEN /\ proc' = [proc EXCEPT ![p].pc = "qcount"]
            /\ UNCHANGED <<tokens, lastRefill, waiting>>
       ELSE /\ tokens' = a.tokens
            /\ lastRefill' = now
            /\ waiting' = IF a.ok THEN waiting ELSE Suspend(waiting, p, now + WaitTime)
            /\ proc' = [proc EXCEPT ![p].pc = IF a.ok THEN "acquired" ELSE "waiting"]
    /\ UNCHANGED <<impl, now, cacheVars, lastL, retryVars, metrics, backendCalls, calls, inFlight>>
    /\ UNCHANGED offVars

\* updateDoc of part_003: the backend write resolves, the document's entry and the
\* list entries of its collection are invalidated
UpdateDocSucceeds(p) ==
    /\ impl = "v2"
    /\ proc[p].pc = "attempt"
    /\ proc[p].op = "update"
    /\ remote' = proc[p].val
    /\ cache' = LRUInvalidatePattern(LRUInvalidate(cache, proc[p].key), "^products_docs")
    /\ metrics' = [metrics EXCEPT !.opCount = @ + 1]
    /\ proc' = Done(p, Value("ok"))
    /\ UNCHANGED <<impl, now, hits, misses, recency, lastC, limVars, retryVars, backendCalls, calls, inFlight>>
    /\ UNCHANGED <<online, db, store, nextId, memq, processing, drain, accepted, enqCount, restarts>>

\* updateDoc of part_003: the backend write rejects with error.code = code: the catch
\* block of executeWithRetry, and when it rethrows, the catch block of updateDoc
UpdateDocFails(p, code) ==
    /\ impl = "v2"
    /\ proc[p].pc = "attempt"
    /\ proc[p].op = "update"
    /\ IF ThrowsAtOnce(impl, code) \/ LastAttempt(proc[p].idx, SvcRetries)
       THEN /\ metrics' = [metrics EXCEPT !.opCount = @ + 1, !.opErrors = @ + 1]
            /\ proc' = Done(p, Failure("FirebaseError", code))
       ELSE /\ metrics' = metrics
            /\ proc' = [proc EXCEPT ![p].pc = "delay"]
    /\ UNCHANGED <<impl, now, cacheVars, limVars, retryVars, backendCalls, calls, inFlight>>
    /\ UNCHANGED offVars

\* the caller takes the result; it may call again
Return(p) ==
    /\ proc[p].pc = "done"
    /\ proc' = [proc EXCEPT ![p] = IdleProc]
    /\ UNCHANGED <<impl, now, cacheVars, limVars, retryVars, metrics, backendCalls, calls, inFlight>>
    /\ UNCHANGED offVars

\* the limiter has been in use before: tokens is any whole number of tokens
SvcInit ==
    /\ impl \in Impls
    /\ now = 0
    /\ NewCache
    /\ tokens \in {n * Scale : n \in 0..MaxTokens}
    /\ lastRefill = now
    /\ waiting = [c \in {} |-> 0]
    /\ lastL = [op |-> "new", caller |-> Null, cost |-> 0, ret |-> Null]
    /\ NoRetry
    /\ NoService
    /\ Connected

SvcNext ==
    \/ SvcTick
    \/ \E p \in Callers : \E r \in Reads3 : ExecuteWithCache(p, r)
    \/ \E p \in Callers : \E k \in GetDocsKeys : GetDocs(p, k)
    \/ \E p \in Callers : GetDocsCheck(p)
    \/ \E p \in Callers : GetDocsResume(p)
    \/ \E p \in Callers : GetDocsFetch(p)
    \/ \E p \in Callers : \E v \in Values : ReadSucceeds(p, v)
    \/ \E p \in Callers : \E code \in SvcCodes : ReadFails(p, code)
    \/ \E p \in Callers : ReadRetries(p)
    \/ \E p \in Callers : \E v \in WriteValues : UpdateProduct(p, v)
    \/ \E p \in Callers : UpdateSucceeds(p)
    \/ \E p \in Callers : \E code \in SvcCodes : UpdateFails(p, code)
    \/ \E p \in Callers : \E v \in WriteValues : UpdateDoc(p, v)
    \/ \E p \in Callers : UpdateDocCheck(p)
    \/ \E p \in Callers : UpdateDocSucceeds(p)
    \/ \E p \in Callers : \E code \in SvcCodes : UpdateDocFails(p, code)
    \/ \E p \in Callers : Return(p)

SpecService == SvcInit /\ [][SvcNext]_vars

\* ============================================================= offline queue
MaxQueueSize == 2   \* OfflineQueue.maxQueueSize in the model (v2)
MaxQueued == 2      \* number of operations a behaviour enqueues
MaxRestarts == 1    \* number of page reloads in a behaviour

\* a queued operation: id is the key the object store gave it (the in-memory
\* queue of part_003 gives none), n its number among all enqueued operations
\* (observer), status the field src/js/firebase.js adds
Item(id, n, k, v) ==
    [id |-> id, n |-> n, key |-> k, val |-> v, status |-> IF impl = "v3" THEN "pending" ELSE Null]

\* item.id of an item that has none (undefined)
NoId == 0

Numbers(q) == [j \in 1..Len(q) |-> q[j].n]

\* does the queue of part_003 run on its in-memory fallback
InMemory == impl = "v2" /\ db = "failed"

\* OfflineQueue.getAll / OfflineQueue.count
GetAll == IF InMemory THEN memq ELSE store
Count == Len(GetAll)

\* store.delete(id) on the object store
StoreDelete(st, id) == SelectSeq(st, LAMBDA x : x.id # id)

\* findIndex(item => item.id === id) of the in-memory remove of part_003, counted
\* from 1; 0 when no item matches
FindIndex(q, id) ==
    IF \E j \in 1..Len(q) : q[j].id = id
    THEN CHOOSE j \in 1..Len(q) : q[j].id = id /\ \A h \in 1..(j - 1) : q[h].id # id
    ELSE 0

\* the in-memory remove of part_003: if (index > -1) splice(index, 1)
MemRemove(q, id) ==
    LET j == FindIndex(q, id) IN
    IF j = 0 THEN q ELSE [h \in 1..(Len(q) - 1) |-> IF h < j THEN q[h] ELSE q[h + 1]]

\* FirebaseService.updateDoc of part_003, offline: OfflineQueue.add reads the count
QueueCount(p) ==
    /\ impl = "v2"
    /\ proc[p].pc = "qcount"
    /\ proc' = IF Count >= MaxQueueSize THEN Done(p, Failure("Error", "queue-full"))
                ELSE [proc EXCEPT ![p].pc = "qadd"]
    /\ UNCHANGED <<impl, now, cacheVars, limVars, retryVars, metrics, backendCalls, calls, inFlight>>
    /\ UNCHANGED offVars

\* updateDoc of part_003, offline: OfflineQueue.add stores the item, in the object
\* store (the request succeeds or fails) or in the in-memory queue; then updateDoc
\* counts the operation and throws OfflineError
QueueAdd(p, ok) ==
    LET item == Item(IF InMemory THEN NoId ELSE nextId, enqCount + 1, proc[p].key, proc[p].val) IN
    /\ impl = "v2"
    /\ proc[p].pc = "qadd"
    /\ InMemory => ok
    /\ IF ok
       THEN /\ store' = IF InMemory THEN store ELSE Append(store, item)
            /\ nextId' = IF InMemory THEN nextId ELSE nextId + 1
            /\ memq' = IF InMemory THEN Append(memq, item) ELSE memq
            /\ accepted' = Append(accepted, item.n)
            /\ enqCount' = enqCount + 1
            /\ metrics' = Bump(metrics, "queued")
            /\ proc' = Done(p, Failure("OfflineError", Null))
       ELSE /\ proc' = Done(p, Failure("Error", "idb-request"))
            /\ UNCHANGED <<store, nextId, memq, accepted, enqCount, metrics>>
    /\ UNCHANGED <<impl, now, cacheVars, limVars, retryVars, backendCalls, calls, inFlight>>
    /\ UNCHANGED <<online, db, processing, drain, remote, restarts>>

\* OfflineQueue.add of src/js/firebase.js, called through the exported queue or by
\* the catch block of executeWithCache: init() is run first when the database is
\* not open.  The calls that reject (init or the request fails) change nothing.
QueueAdd3(k, v) ==
    /\ impl = "v3"
    /\ enqCount < MaxQueued
    /\ db' = "open"
    /\ store' = Append(store, Item(nextId, enqCount + 1, k, v))
    /\ nextId' = nextId + 1
    /\ accepted' = Append(accepted, enqCount + 1)
    /\ enqCount' = enqCount + 1
    /\ UNCHANGED <<impl, now, cacheVars, limVars, retryVars, svcVars>>
    /\ UNCHANGED <<online, memq, processing, drain, remote, restarts>>

\* ------------------------------------------------------- connection monitor
\* run d is the one the next processing of the queue takes: the first idle one
FreeRun(d) == drain[d].pc = "idle" /\ (d = "g2" => drain["g1"].pc # "idle")

\* the window's 'online' event: ConnectionMonitor.handleOnline and its listeners.
\* src/js/firebase.js: the onChange handler of initializeServices (registered only
\* when offlineQueue.init() succeeded) reads the queue and starts its loop.
\* part_003: the subscriber arms a timer that will call processAll.
HandleOnline ==
    /\ online' = TRUE
    /\ IF impl = "v3" /\ db = "failed"
       THEN drain' = drain
       ELSE \E d \in Runs :
              /\ FreeRun(d)
              /\ drain' = [drain EXCEPT ![d] =
                              IF impl = "v3"
                              THEN [pc |-> "loop", items |-> store, i |-> 1, log |-> <<>>]
                              ELSE [pc |-> "timer", items |-> <<>>, i |-> 0, log |-> <<>>]]
    /\ UNCHANGED <<impl, now, cacheVars, limVars, retryVars, svcVars>>
    /\ UNCHANGED <<db, store, nextId, memq, processing, remote, accepted, enqCount, restarts>>

\* the browser goes from offline to online and fires 'online'
ComesOnline ==
    /\ ~online
    /\ HandleOnline

\* the window's 'offline' event: ConnectionMonitor.handleOffline; no listener acts on it
HandleOffline ==
    /\ online
    /\ online' = FALSE
    /\ UNCHANGED <<impl, now, cacheVars, limVars, retryVars, svcVars>>
    /\ UNCHANGED <<db, store, nextId, memq, processing, drain, remote, accepted, enqCount, restarts>>

\* ------------------------------------------------------------ queue processing
\* OfflineQueue.processAll of part_003, from the timer's callback to the first
\* iteration of its loop; the in-memory queue is iterated in place
ProcessAll(d) ==
    /\ impl = "v2"
    /\ drain[d].pc = "timer"
    /\ IF processing \/ Count = 0
       THEN /\ drain' = [drain EXCEPT ![d] = IdleRun]
            /\ processing' = processing
       ELSE /\ drain' = [drain EXCEPT ![d] = [pc |-> "loop", i |-> 1, log |-> <<>>,
                                              items |-> IF InMemory THEN <<>> ELSE store]]
            /\ processing' = TRUE
    /\ UNCHANGED <<impl, now, cacheVars, limVars, retryVars, svcVars>>
    /\ UNCHANGED <<online, db, store, nextId, memq, remote, accepted, enqCount, restarts>>

\* a loop that walks its array from the end
Items_Reversed(d) ==
    LET q == IF InMemory THEN memq ELSE drain[d].items
    IN  [j \in 1..Len(q) |-> q[Len(q) + 1 - j]]

\* the array the loop of run d iterates
Items(d) == IF InMemory THEN memq ELSE drain[d].items

\* one iteration of the loop `for (const item of items)`, in processAll of part_003
\* and in the onChange handler of src/js/firebase.js: the operation is not
\* replayed, it is only removed; ok tells whether the delete request succeeded
DrainStep(d, ok) ==
    LET item == Items(d)[drain[d].i]
        gone == IF InMemory
                THEN IF FindIndex(memq, item.id) = 0 THEN <<>>
                     ELSE <<memq[FindIndex(memq, item.id)].n>>
                ELSE IF ok /\ \E j \in 1..Len(store) : store[j].id = item.id THEN <<item.n>> ELSE <<>>
    IN
    /\ drain[d].pc = "loop"
    /\ drain[d].i <= Len(Items(d))
    /\ InMemory => ok
    /\ store' = IF ~InMemory /\ ok THEN StoreDelete(store, item.id) ELSE store
    /\ memq' = IF InMemory THEN MemRemove(memq, item.id) ELSE memq
    /\ accepted' = SelectSeq(accepted, LAMBDA n : <<n>> # gone)
    /\ drain' = [drain EXCEPT ![d].i = @ + 1,
                              ![d].log = Append(@, [n |-> item.n, key |-> item.key, ok |-> ok])]
    /\ UNCHANGED <<impl, now, cacheVars, limVars, retryVars, svcVars>>
    /\ UNCHANGED <<online, db, nextId, processing, remote, enqCount, restarts>>

\* the loop of run d ends
DrainEnd(d) ==
    /\ drain[d].pc = "loop"
    /\ drain[d].i > Len(Items(d))
    /\ drain' = [drain EXCEPT ![d] = IdleRun]
    /\ processing' = IF impl = "v2" THEN FALSE ELSE processing
    /\ UNCHANGED <<impl, now, cacheVars, limVars, retryVars, svcVars>>
    /\ UNCHANGED <<online, db, store, nextId, memq, remote, accepted, enqCount, restarts>>

\* ------------------------------------------------------------------ the page
\* the page is reloaded: the script's objects are built anew, the in-memory state
\* is gone, indexedDB.open succeeds or fails again; the object store and the
\* backend keep what they hold
Restart ==
    /\ restarts < MaxRestarts
    /\ restarts' = restarts + 1
    /\ cache' = <<>> /\ hits' = 0 /\ misses' = 0 /\ recency' = <<>> /\ lastC' = NoCall("new")
    /\ tokens' = Capacity /\ lastRefill' = now /\ waiting' = [c \in {} |-> 0]
    /\ lastL' = [op |-> "new", caller |-> Null, cost |-> 0, ret |-> Null]
    /\ proc' = [c \in Callers |-> IdleProc]
    /\ metrics' = ZeroMetrics
    /\ online' \in BOOLEAN
    /\ db' \in {"open", "failed"}
    /\ memq' = <<>>
    /\ processing' = FALSE
    /\ drain' = [d \in Runs |-> IdleRun]
    /\ UNCHANGED <<impl, now, retryVars, backendCalls, calls>>
    /\ inFlight' = {}
    /\ UNCHANGED <<store, nextId, remote, accepted, enqCount>>

\* what an earlier visit of the page may have left in the object store
PriorStores == {<<>>, <<Item(1, 1, "products_p1", "w1")>>}

\* the error code of a failed backend write in the queue's specification: one that
\* neither retry loop retries
OffCodes == {"permission-denied"}

OffInit ==
    /\ impl \in Impls
    /\ now = 0
    /\ NewCache
    /\ NewLimiter
    /\ NoRetry
    /\ NoService
    /\ online \in BOOLEAN
    /\ db \in {"open", "failed"}
    /\ store \in PriorStores
    /\ nextId = Len(store) + 1
    /\ memq = <<>>
    /\ processing = FALSE
    /\ drain = [d \in Runs |-> IdleRun]
    /\ remote = Null
    /\ accepted = Numbers(store)
    /\ enqCount = Len(store)
    /\ restarts = 0

OffNext ==
    \/ ComesOnline
    \/ HandleOffline
    \/ \E p \in Callers : \E v \in WriteValues : UpdateProduct(p, v)
    \/ \E p \in Callers : UpdateSucceeds(p)
    \/ \E p \in Callers : \E code \in OffCodes : UpdateFails(p, code)
    \/ \E p \in Callers : \E v \in WriteValues : UpdateDoc(p, v)
    \/ \E p \in Callers : UpdateDocCheck(p)
    \/ \E p \in Callers : GetDocsFetch(p)
    \/ \E p \in Callers : UpdateDocSucceeds(p)
    \/ \E p \in Callers : \E code \in OffCodes : UpdateDocFails(p, code)
    \/ \E p \in Callers : QueueCount(p)
    \/ \E p \in Callers : \E ok \in BOOLEAN : QueueAdd(p, ok)
    \/ \E k \in {"products_p1"} : \E v \in WriteValues : QueueAdd3(k, v)
    \/ \E d \in Runs : ProcessAll(d)
    \/ \E d \in Runs : \E ok \in BOOLEAN : DrainStep(d, ok)
    \/ \E d \in Runs : DrainEnd(d)
    \/ Restart
    \/ \E p \in Callers : Return(p)

SpecOffline == OffInit /\ [][OffNext]_vars

\* ================================================================ cache claims
Last(q) == q[Len(q)]

\* C1: the number of physically stored entries never exceeds maxSize, whatever
\* sequence of get, set, invalidate, invalidatePattern and clear calls was made.
C1_CapacityBound == Len(cache) <= MaxSize

\* a set of a new key arrived at a full cache and the cache is still exactly full
C1_Witness ==
    /\ lastC.op = "set" /\ lastC.full /\ ~lastC.had
    /\ Len(cache) = MaxSize

\* C2: strict LRU.  A set of a new key that finds the cache full evicts exactly
\* one entry, the one whose last successful get or set is the oldest; and a key
\* that a get has just returned is not the one evicted by the next insert.
C2_StrictLRU ==
    [][/\ (lastC'.op = "set" /\ lastC'.full /\ ~lastC'.had)
            => KeysOf(cache') = (KeysOf(cache) \ {Head(recency)}) \cup {lastC'.key}
       /\ (/\ lastC.op = "get" /\ lastC.ret # Null
           /\ lastC'.op = "set" /\ lastC'.full /\ ~lastC'.had
           /\ MaxSize >= 2)
            => Has(cache', lastC.key)]_vars

\* C3: get returns the stored value while now - storedAt <= ttl; it returns
\* absent for an unknown key and for an entry older than ttl, and the expired
\* entry is removed, the other entries keeping their order.
C3_TTL ==
    [][lastC'.op = "get" =>
         LET k == lastC'.key IN
         IF Has(cache, k) /\ now - Lookup(cache, k).timestamp <= TTL
         THEN /\ lastC'.ret = Lookup(cache, k).value
              /\ Has(cache', k)
              /\ Lookup(cache', k) = Lookup(cache, k)
         ELSE /\ lastC'.ret = Null
              /\ cache' = MapDelete(cache, k)]_vars

\* a get found its key stored but too old: it returned absent and the entry is gone
C3_Witness ==
    /\ lastC.op = "get" /\ lastC.had /\ lastC.ret = Null
    /\ ~Has(cache, lastC.key)
    /\ Len(cache) >= 1

\* C4: a set of a key that is already stored makes it the most recently used
\* entry with a fresh timestamp, and evicts no other key, also in a full cache.
C4_ResetInPlace ==
    [][(lastC'.op = "set" /\ lastC'.had) =>
         /\ KeysOf(cache') = KeysOf(cache)
         /\ Last(cache').key = lastC'.key
         /\ Last(cache').timestamp = now
         /\ Last(recency') = lastC'.key]_vars

\* ============================================================== limiter claims
\* C5: 0 <= tokens <= maxTokens in every reachable state, also when several
\* callers are suspended inside the limiter and resume one after another.
C5_TokenBounds == 0 <= tokens /\ tokens <= Capacity

\* C6: an acquisition of cost c first refills to min(maxTokens, tokens + elapsed * rate),
\* then returns true and takes c tokens iff the refilled amount is at least c;
\* otherwise it returns false at once, without waiting and without taking tokens.
C6_TryAcquire ==
    [][lastL'.op = "acquire" =>
         LET refilled == Min(Capacity, tokens + (now - lastRefill)) IN
         IF refilled >= lastL'.cost * Scale
         THEN lastL'.ret = "true" /\ tokens' = refilled - lastL'.cost * Scale
         ELSE lastL'.ret = "false" /\ tokens' = refilled /\ waiting' = waiting]_vars

\* ================================================================ retry claims
TerminalKinds == {"permission-denied", "unauthenticated", "invalid-argument"}

\* C9: a permission-denied, unauthenticated or invalid-argument failure is rethrown
\* at once; when the first failure is of that kind the operation was attempted
\* exactly once and no backoff delay was taken.
C9_TerminalNotRetried ==
    /\ (Len(rErrors) >= 1 /\ Last(rErrors) \in TerminalKinds)
         => (rPc = "thrown" /\ rThrown = Last(rErrors) /\ rAttempts = Len(rErrors))
    /\ (Len(rErrors) >= 1 /\ rErrors[1] \in TerminalKinds)
         => (rAttempts = 1 /\ rDelays = <<>>)

\* a terminal error on the first attempt of a loop that had retries left
C9_Witness ==
    /\ rPc = "thrown" /\ rMax >= 2 /\ rAttempts = 1
    /\ rThrown \in TerminalKinds

\* C10: every other error kind is retried: a loop whose attempts all failed with
\* such errors made exactly maxRetries attempts; the i-th delay is baseDelay * 2^(i-1);
\* no delay follows the last attempt; a successful attempt is the last one.
C10_RetryableRetried ==
    /\ (rPc = "thrown" /\ \A j \in 1..Len(rErrors) : rErrors[j] \notin TerminalKinds)
         => (rAttempts = rMax /\ Len(rDelays) = rMax - 1)
    /\ \A j \in 1..Len(rDelays) : rDelays[j] = BaseDelay * 2^(j - 1)
    /\ rPc = "returned" => (rAttempts = Len(rErrors) + 1 /\ Len(rDelays) = Len(rErrors))

\* =============================================================== service claims
\* caller p runs the cache check of a read in this step
Checks(p) ==
    \/ impl = "v3" /\ proc[p].pc = "idle" /\ proc'[p].op = "read"
    \/ impl = "v2" /\ proc[p].pc = "ensure" /\ proc'[p].pc # "ensure"

\* the cache holds an unexpired value for the key p reads, and p reads through the cache
Stored(p) ==
    LET k == proc'[p].key IN
    /\ proc'[p].useCache
    /\ Has(cache, k)
    /\ now - Lookup(cache, k).timestamp <= TTL
    /\ Lookup(cache, k).value # Null

C8_RateLimited ==
    [][\A p \in Callers :
         (Checks(p) /\ ~Stored(p) /\ Min(Capacity, tokens + (now - lastRefill)) < 1 * Scale) =>
         /\ proc'[p].pc = "done"
         /\ proc'[p].ret.kind = "RateLimitError"
         /\ backendCalls' = backendCalls
         /\ waiting' = waiting
         /\ \A i \in 1..Len(cache') : \E j \in 1..Len(cache) : cache'[i] = cache[j]]_vars

\* caller p's read ended with a backend error after its last allowed attempt,
\* and that last error is not of a terminal kind
Exhausted(p) ==
    /\ proc[p].pc = "done" /\ proc[p].op = "read"
    /\ proc[p].ret.kind \notin {"none", "value", "RateLimitError"}
    /\ proc[p].idx = SvcRetries - 1
    /\ proc[p].ret.val \notin TerminalKinds

\* C11: when every attempt of a read failed with a retryable error, the error the
\* caller receives is a RetryExhaustedError (wrapping the last error), which sets
\* it apart from a terminal backend error thrown on the first attempt.
C11_RetryExhausted ==
    \A p \in Callers : Exhausted(p) => proc[p].ret.kind = "RetryExhaustedError"

\* C12: a read never makes more backend attempts than the retries value r >= 0
\* its caller passed, and for r >= 1 a finished read made at least one attempt.
C12_RetriesBound ==
    rAsked # <<>> =>
        /\ rAttempts <= rAsked[1]
        /\ (rAsked[1] >= 1 /\ rPc \in {"returned", "thrown"}) => rAttempts >= 1

\* ================================================================ write claims
\* the cache keys a write to document p1 of the products collection affects: the
\* document's own key and the list and query keys of the collection
Affected == {"products_p1", "products_docs_all", "products_docs_filtered"}

\* a read of k at time t would be answered from cache c
Served(c, k, t) == Has(c, k) /\ ~Expired(Lookup(c, k), t) /\ Truthy(Lookup(c, k).value)

\* the backend write of caller p succeeds in this step
WriteDone(p) ==
    /\ proc[p].op = "update" /\ proc[p].pc = "attempt"
    /\ proc'[p].pc = "done" /\ proc'[p].ret.kind = "value"

\* C14: when a write to a document succeeds, the cache is left with nothing to
\* serve for the document's key or for a list or query key of its collection, so
\* that the next read of any of them goes to the backend.
C14_Invalidation ==
    [][\A p \in Callers : WriteDone(p) => \A k \in Affected : ~Served(cache', k, now)]_vars

\* caller p is awaiting a backend call it started itself for the key it reads
InFlight(p) == proc[p].op = "read" /\ proc[p].pc = "attempt"

\* C15: reads of one cache key that overlap share a single backend call: no two
\* callers ever have a backend call of their own in flight for the same key.
C15_Deduplication ==
    \A p, q \in Callers :
        (p # q /\ InFlight(p) /\ InFlight(q)) => proc[p].key # proc[q].key

\* ================================================================ queue claims
\* caller p's write consults the connection monitor in this step and finds it offline
FindsOffline(p) ==
    /\ ~online
    /\ restarts' = restarts
    /\ \/ impl = "v3" /\ proc[p].pc = "idle" /\ proc'[p].op = "update"
       \/ impl = "v2" /\ proc[p].pc = "wensure" /\ proc'[p].pc # "wensure"

\* caller p's write takes a step of its enqueue
Enqueues(p) ==
    /\ proc[p].pc \in {"qcount", "qadd"}
    /\ proc'[p] # proc[p]
    /\ restarts' = restarts

\* C13: a write that finds the connection monitor offline goes to the offline
\* queue: it starts no backend call, takes no token and leaves the cache alone,
\* and it ends with the queued signal and exactly one more operation in the
\* queue (or, when the queue refuses it, with an error and the queue unchanged).
C13_OfflineWrite ==
    [][\A p \in Callers :
         /\ FindsOffline(p) =>
               /\ proc'[p].pc = "qcount"
               /\ backendCalls' = backendCalls /\ tokens' = tokens /\ cache' = cache
         /\ Enqueues(p) =>
               /\ backendCalls' = backendCalls /\ tokens' = tokens /\ cache' = cache
               /\ proc'[p].pc = "done" =>
                     \/ /\ proc'[p].ret.kind = "OfflineError"
                        /\ Len(GetAll') = Len(GetAll) + 1
                     \/ /\ proc'[p].ret.kind = "Error"
                        /\ GetAll' = GetAll]_vars

\* C16: the offline queue never holds more operations than its cap, whatever the
\* interleaving of the enqueues.
C16_QueueCap == Len(store) <= MaxQueueSize /\ Len(memq) <= MaxQueueSize

C18_FailureBlocksKey ==
    \A d \in Runs : \A i \in 1..Len(drain[d].log) :
        ~drain[d].log[i].ok =>
            /\ \E j \in 1..Len(GetAll) : GetAll[j].n = drain[d].log[i].n
            /\ \A j \in (i + 1)..Len(drain[d].log) : drain[d].log[j].key # drain[d].log[i].key

\* C19: an operation leaves the offline queue only once the backend holds its
\* write: in the step that removes it, the document has the operation's value.
C19_NoLostWrite ==
    [][\A j \in 1..Len(GetAll) :
         (/\ restarts' = restarts
          /\ \A h \in 1..Len(GetAll') : GetAll'[h].n # GetAll[j].n)
         => remote = GetAll[j].val]_vars

\* C20: after a page reload that opened the persistent store, the pending
\* operations it lists are exactly those enqueued and not removed, in their order.
C20_Durable ==
    (restarts >= 1 /\ db = "open") => Numbers(GetAll) = accepted

\* ---------------------------------------------- repeated connection events
\* OfflineQueue.processAll of part_003 when the read of the pending operations
\* fails: the flag was set before `await this.getAll()`, the rejection leaves
\* processAll at that line and nothing after it runs
ProcessAllFails(d) ==
    /\ impl = "v2"
    /\ drain[d].pc = "timer"
    /\ ~processing
    /\ ~InMemory
    /\ processing' = TRUE
    /\ drain' = [drain EXCEPT ![d] = IdleRun]
    /\ UNCHANGED <<impl, now, cacheVars, limVars, retryVars, svcVars>>
    /\ UNCHANGED <<online, db, store, nextId, memq, remote, accepted, enqCount, restarts>>

\* window.__firebase_debug__.processQueue() of part_003: processAll called at
\* once, without the subscriber's timer
ProcessQueue(d) ==
    /\ impl = "v2"
    /\ FreeRun(d)
    /\ ~processing
    /\ Count > 0
    /\ drain' = [drain EXCEPT ![d] = [pc |-> "loop", i |-> 1, log |-> <<>>,
                                      items |-> IF InMemory THEN <<>> ELSE store]]
    /\ processing' = TRUE
    /\ UNCHANGED <<impl, now, cacheVars, limVars, retryVars, svcVars>>
    /\ UNCHANGED <<online, db, store, nextId, memq, remote, accepted, enqCount, restarts>>

\* the connection monitor with every event the window can deliver (an 'online'
\* event also while the monitor is online), the offline writes that fill the
\* queue and the passes over the queue
MonNext ==
    \/ HandleOnline
    \/ HandleOffline
    \/ \E p \in Callers : \E v \in WriteValues : UpdateDoc(p, v)
    \/ \E p \in Callers : UpdateDocCheck(p)
    \/ \E p \in Callers : GetDocsFetch(p)
    \/ \E p \in Callers : UpdateDocSucceeds(p)
    \/ \E p \in Callers : QueueCount(p)
    \/ \E p \in Callers : \E ok \in BOOLEAN : QueueAdd(p, ok)
    \/ \E k \in {"products_p1"} : \E v \in WriteValues : QueueAdd3(k, v)
    \/ \E d \in Runs : ProcessAll(d)
    \/ \E d \in Runs : ProcessAllFails(d)
    \/ \E d \in Runs : ProcessQueue(d)
    \/ \E d \in Runs : \E ok \in BOOLEAN : DrainStep(d, ok)
    \/ \E d \in Runs : DrainEnd(d)
    \/ \E p \in Callers : Return(p)

SpecMonitor == OffInit /\ [][MonNext]_vars

\* a pass over the queue is scheduled in this step: run d leaves "idle" for the
\* state the listener of the connection monitor puts it in
Scheduled(d) ==
    /\ drain[d].pc = "idle"
    /\ drain'[d].pc = IF impl = "v3" THEN "loop" ELSE "timer"

\* C21: a connection signal that repeats the monitor's state does nothing: while
\* the monitor is online no step schedules a pass over the queue (the listeners
\* are not called); and every step from offline to online schedules one.
C21_RepeatedSignalNoOp ==
    [][/\ (online /\ online') => \A d \in Runs : ~Scheduled(d)
       /\ (~online /\ online' /\ (impl = "v3" => db = "open")) => \E d \in Runs : Scheduled(d)]_vars

\* C22: an `online` event that arrives while a pass over the queue is running is
\* not dropped: the pass it scheduled stays scheduled until the running pass has
\* completed (it is never discarded while another pass is in its loop).
C22_EventNotDropped ==
    [][\A d \in Runs :
          (/\ drain[d].pc = "timer"
           /\ \E e \in Runs : drain[e].pc = "loop"
           /\ restarts' = restarts)
          => drain'[d].pc # "idle"]_vars

\* C25: passes over the queue never overlap: at most one run is in its loop.
C25_NoOverlap ==
    Cardinality({d \in Runs : drain[d].pc = "loop"}) <= 1

\* the passes over the queue make progress: the requests to the object store call
\* back and the timers of the loop fire
SpecMonitorFair ==
    /\ SpecMonitor
    /\ WF_vars(\E d \in Runs : \E ok \in BOOLEAN : DrainStep(d, ok))
    /\ WF_vars(\E d \in Runs : DrainEnd(d))

\* C28: the flag that marks a pass in progress is always released: whenever it is
\* set it is clear again later, also when the read of the pending operations or
\* the handling of an operation fails.
C28_FlagReleased ==
    processing ~> ~processing

\* the retry loops with the one timer they arm, the backoff: it fires; whether
\* and when the backend settles an attempt is not in the code's hands
SpecRetryFair ==
    /\ SpecRetry
    /\ WF_vars(DelayElapses)

\* C24: an attempt that never resolves does not block the call for ever: whenever
\* the loop is awaiting an attempt, the call later returns or throws.
C24_AttemptBounded ==
    (rPc = "attempt") ~> (rPc \in {"returned", "thrown"})

\* ------------------------------------------------------------ votes on a FAQ
\* FAQService.voteHelpful of part_003 on document f1, up to `await this.ensureFirestore()`
VoteHelpful(p) ==
    /\ impl = "v2"
    /\ proc[p].pc = "idle"
    /\ calls < MaxCalls
    /\ calls' = calls + 1
    /\ proc' = [proc EXCEPT ![p] = [pc |-> "vensure", op |-> "vote", key |-> "faqs_f1",
                                    val |-> Null, useCache |-> FALSE, idx |-> 0, ret |-> NoResult]]
    /\ UNCHANGED <<impl, now, cacheVars, limVars, retryVars, metrics, backendCalls, inFlight>>
    /\ UNCHANGED offVars

\* voteHelpful: executeWithRetry calls updateDoc for the first time
VoteStart(p) ==
    /\ impl = "v2"
    /\ proc[p].pc = "vensure"
    /\ backendCalls' = backendCalls + 1
    /\ proc' = [proc EXCEPT ![p].pc = "attempt"]
    /\ UNCHANGED <<impl, now, cacheVars, limVars, retryVars, metrics, calls, inFlight>>
    /\ UNCHANGED offVars

\* voteHelpful: the backend write resolves, the document's entry is invalidated
VoteSucceeds(p) ==
    /\ impl = "v2"
    /\ proc[p].pc = "attempt"
    /\ proc[p].op = "vote"
    /\ cache' = LRUInvalidate(cache, proc[p].key)
    /\ metrics' = [metrics EXCEPT !.opCount = @ + 1]
    /\ proc' = Done(p, Value("ok"))
    /\ UNCHANGED <<impl, now, hits, misses, recency, lastC, limVars, retryVars, backendCalls, calls, inFlight>>
    /\ UNCHANGED offVars

\* voteHelpful: the backend write rejects with error.code = code: the catch block
\* of executeWithRetry, and when it rethrows, the catch block of voteHelpful
VoteFails(p, code) ==
    /\ impl = "v2"
    /\ proc[p].pc = "attempt"
    /\ proc[p].op = "vote"
    /\ IF ThrowsAtOnce(impl, code) \/ LastAttempt(proc[p].idx, SvcRetries)
       THEN /\ metrics' = [metrics EXCEPT !.opCount = @ + 1, !.opErrors = @ + 1]
            /\ proc' = Done(p, Failure("FirebaseError", code))
       ELSE /\ metrics' = metrics
            /\ proc' = [proc EXCEPT ![p].pc = "delay"]
    /\ UNCHANGED <<impl, now, cacheVars, limVars, retryVars, backendCalls, calls, inFlight>>
    /\ UNCHANGED offVars

\* the service with every operation that calls the backend
GateNext ==
    \/ SvcNext
    \/ \E p \in Callers : VoteHelpful(p)
    \/ \E p \in Callers : VoteStart(p)
    \/ \E p \in Callers : VoteSucceeds(p)
    \/ \E p \in Callers : \E code \in SvcCodes : VoteFails(p, code)

SpecGate == SvcInit /\ [][GateNext]_vars

\* caller p's operation makes its first backend call in this step
FirstAttempt(p) ==
    /\ proc[p].pc \notin {"attempt", "delay"}
    /\ proc'[p].pc = "attempt"

\* caller p holds a token for the call: it acquired one in an earlier step or
\* this step takes one from the bucket
TokenTaken(p) ==
    LET a == TryAcquireOp(tokens, lastRefill, now, 1) IN
    \/ proc[p].pc = "acquired"
    \/ a.ok /\ tokens' = a.tokens

\* C23: every backend call is gated by the limiter and run by the retry loop:
\* an operation's first backend call is made holding a token, and a write that
\* ends with the retryable code "unavailable" has used every attempt.
C23_Gated ==
    [][\A p \in Callers :
          /\ FirstAttempt(p) => TokenTaken(p)
          /\ (proc'[p].pc = "done" /\ proc'[p].op # "read" /\ proc'[p].ret.val = "unavailable")
               => proc'[p].idx = SvcRetries - 1]_vars

\* ------------------------------------------------- reads of one document
\* the document products/p1 as the backend holds it: "d1" until a write replaces it
Doc == IF remote = Null THEN "d1" ELSE remote

\* getProductById("p1") of src/js/firebase.js: the key and options it passes
DocReads3 == {[key |-> "products_p1", useCache |-> TRUE]}

\* inFlightRequests.delete(key) in the finally block of deduplicateRequest: a
\* variant that keeps the key
Settled_Kept(m, k) == m

\* inFlightRequests.delete(key) in the finally block of deduplicateRequest
Settled(m, k) == m \ {k}

\* the promise of the backend read of caller p settles with result: p and every
\* caller that was handed the same promise by deduplicateRequest get it
SettleAll(p, result) ==
    [q \in Callers |->
        IF q = p \/ (proc[q].pc = "joined" /\ proc[q].key = proc[p].key)
        THEN [proc[q] EXCEPT !.pc = "done", !.ret = result]
        ELSE proc[q]]

\* FirebaseService.getDoc("p1") of part_003 on the products collection, up to
\* `await this.ensureFirestore()`
GetDoc(p) ==
    /\ impl = "v2"
    /\ proc[p].pc = "idle"
    /\ calls < MaxCalls
    /\ calls' = calls + 1
    /\ proc' = [proc EXCEPT ![p] = [pc |-> "densure", op |-> "getdoc", key |-> "products_p1",
                                    val |-> Null, useCache |-> TRUE, idx |-> 0, ret |-> NoResult]]
    /\ UNCHANGED <<impl, now, cacheVars, limVars, retryVars, metrics, backendCalls, inFlight>>
    /\ UNCHANGED offVars

\* getDoc of part_003: the cache check, and on a miss deduplicateRequest: with the
\* key in the Map the caller is handed the stored promise; otherwise the operation
\* is started (rateLimiter.acquire() up to its return or its await) and its
\* promise is stored under the key
GetDocCheck(p) ==
    LET k == proc[p].key
        g == LRUGet(cache, k, now)
        a == AcquireOp(tokens, lastRefill, now)
    IN
    /\ impl = "v2"
    /\ proc[p].pc = "densure"
    /\ cache' = g.cache
    /\ hits' = IF g.hit THEN hits + 1 ELSE hits
    /\ misses' = IF g.hit THEN misses ELSE misses + 1
    /\ IF Truthy(g.ret)
       THEN /\ metrics' = [metrics EXCEPT !.statsHits = hits', !.statsMisses = misses']
            /\ proc' = Done(p, Value(g.ret))
            /\ UNCHANGED <<tokens, lastRefill, waiting, inFlight>>
       ELSE IF k \in inFlight
            THEN /\ proc' = [proc EXCEPT ![p].pc = "joined"]
                 /\ UNCHANGED <<tokens, lastRefill, waiting, inFlight, metrics>>
            ELSE /\ metrics' = metrics
                 /\ tokens' = a.tokens
                 /\ lastRefill' = now
                 /\ waiting' = IF a.ok THEN waiting ELSE Suspend(waiting, p, now + WaitTime)
                 /\ proc' = [proc EXCEPT ![p].pc = IF a.ok THEN "acquired" ELSE "waiting"]
                 /\ inFlight' = inFlight \cup {k}
    /\ UNCHANGED <<impl, now, recency, lastC, lastL, retryVars, backendCalls, calls>>
    /\ UNCHANGED offVars

\* the backend answers the read of caller p: the response carries the document as
\* it is at this moment
BackendServes(p) ==
    /\ proc[p].pc = "attempt"
    /\ proc[p].op \in {"read", "getdoc"}
    /\ proc[p].key = "products_p1"
    /\ proc[p].val = Null
    /\ proc' = [proc EXCEPT ![p].val = Doc]
    /\ UNCHANGED <<impl, now, cacheVars, limVars, retryVars, metrics, backendCalls, calls, inFlight>>
    /\ UNCHANGED offVars

\* getProductById of src/js/firebase.js: the response arrives, getDoc resolves
DocArrives(p) ==
    /\ impl = "v3"
    /\ proc[p].val # Null
    /\ ReadSucceeds(p, proc[p].val)

\* getProductById of src/js/firebase.js: the request fails, getDoc rejects
DocFails3(p, code) ==
    /\ impl = "v3"
    /\ proc[p].val = Null
    /\ ReadFails(p, code)

\* getDoc of part_003: the response arrives, the backend read resolves: the data is
\* cached, the operation's promise resolves and the finally block of
\* deduplicateRequest runs
GetDocSucceeds(p) ==
    /\ impl = "v2"
    /\ proc[p].pc = "attempt"
    /\ proc[p].op = "getdoc"
    /\ proc[p].val # Null
    /\ cache' = LRUSet(impl, cache, proc[p].key, proc[p].val, now)
    /\ metrics' = [metrics EXCEPT !.opCount = @ + 1, !.statsHits = hits, !.statsMisses = misses]
    /\ proc' = SettleAll(p, Value(proc[p].val))
    /\ inFlight' = Settled(inFlight, proc[p].key)
    /\ UNCHANGED <<impl, now, hits, misses, recency, lastC, limVars, retryVars, backendCalls, calls>>
    /\ UNCHANGED offVars

\* getDoc of part_003: the backend read rejects with error.code = code: the catch
\* block of executeWithRetry; when it rethrows, the catch block of the operation
\* returns {error} and the finally block of deduplicateRequest runs
GetDocFails(p, code) ==
    /\ impl = "v2"
    /\ proc[p].pc = "attempt"
    /\ proc[p].op = "getdoc"
    /\ proc[p].val = Null
    /\ IF ThrowsAtOnce(impl, code) \/ LastAttempt(proc[p].idx, SvcRetries)
       THEN /\ metrics' = [metrics EXCEPT !.opCount = @ + 1, !.opErrors = @ + 1]
            /\ proc' = SettleAll(p, Failure("FirebaseError", code))
            /\ inFlight' = Settled(inFlight, proc[p].key)
       ELSE /\ metrics' = metrics
            /\ proc' = [proc EXCEPT ![p].pc = "delay"]
            /\ inFlight' = inFlight
    /\ UNCHANGED <<impl, now, cacheVars, limVars, retryVars, backendCalls, calls>>
    /\ UNCHANGED offVars

\* reads and writes of document products/p1 through the service
DocNext ==
    \/ SvcTick
    \/ \E p \in Callers : \E r \in DocReads3 : ExecuteWithCache(p, r)
    \/ \E p \in Callers : GetDoc(p)
    \/ \E p \in Callers : GetDocCheck(p)
    \/ \E p \in Callers : GetDocsResume(p)
    \/ \E p \in Callers : GetDocsFetch(p)
    \/ \E p \in Callers : BackendServes(p)
    \/ \E p \in Callers : DocArrives(p)
    \/ \E p \in Callers : \E code \in SvcCodes : DocFails3(p, code)
    \/ \E p \in Callers : GetDocSucceeds(p)
    \/ \E p \in Callers : \E code \in SvcCodes : GetDocFails(p, code)
    \/ \E p \in Callers : ReadRetries(p)
    \/ \E p \in Callers : \E v \in WriteValues : UpdateProduct(p, v)
    \/ \E p \in Callers : UpdateSucceeds(p)
    \/ \E p \in Callers : \E v \in WriteValues : UpdateDoc(p, v)
    \/ \E p \in Callers : UpdateDocCheck(p)
    \/ \E p \in Callers : UpdateDocSucceeds(p)
    \/ \E p \in Callers : Return(p)

SpecDoc == SvcInit /\ [][DocNext]_vars

\* no call of the service is under way
Quiet == \A p \in Callers : proc[p].pc \in {"idle", "done"}

\* C26: a read that was waiting on the backend while a write to the same document
\* completed does not leave the pre-write value in the cache: once every call has
\* finished, what the cache would serve for the document is the document as the
\* backend holds it.
C26_NoStaleRead ==
    (Quiet /\ Served(cache, "products_p1", now))
        => Lookup(cache, "products_p1").value = Doc

\* the keys of the deduplicated backend reads that have been started and have not
\* settled: those of the callers that started the operation of deduplicateRequest
Running ==
    {proc[p].key : p \in {q \in Callers : /\ proc[q].op = "getdoc"
                                          /\ proc[q].pc \in {"waiting", "acquired", "attempt", "delay"}}}

\* C29: the in-flight Map holds key k exactly while a deduplicated backend read for
\* k has been started and has not settled, whether it settles with data or with
\* an error; so the Map is empty whenever no such read is running.
C29_InFlightExact ==
    inFlight = Running

\* a second caller has been handed the promise of a read that is still running
C29_Witness ==
    /\ inFlight = {"products_p1"}
    /\ \E p, q \in Callers : proc[p].pc = "joined" /\ proc[q].pc = "delay"

\* ------------------------------------------------------- reads with a query
\* options.limit of getAllProducts (src/js/firebase.js) and options.category of
\* getFAQs (part_003), as the query each makes of the backend
Limits == {"limit=1", "limit=2"}
Categories == {"category=a", "category=b"}

\* what the backend answers to a query: different queries, different lists
ResultOf(q) ==
    CASE q = "limit=1" -> "d1"
      [] q = "limit=2" -> "d2"
      [] q = "category=a" -> "d1"
      [] q = "category=b" -> "d2"

\* ProductService.getAllProducts(options) of src/js/firebase.js: the cache key and
\* the options it passes to executeWithCache; the key is 'products:all' whatever
\* options.limit is
AllProductsRead(o) == [key |-> "products_docs_all", useCache |-> TRUE, query |-> o]

\* the cache key of FirebaseService.getDocs(queryFn) of part_003 on the faqs
\* collection: `${collectionName}_docs_${queryFn ? 'filtered' : 'all'}`
FaqDocsKey(queryFn) == IF queryFn = Null THEN "faqs_docs_all" ELSE "faqs_docs_filtered"

\* FAQService.getFAQs({category}) of part_003: getDocs is called with a query
\* function, up to `await this.ensureFirestore()`
GetFAQs(p, cat) ==
    /\ impl = "v2"
    /\ proc[p].pc = "idle"
    /\ calls < MaxCalls
    /\ calls' = calls + 1
    /\ proc' = [proc EXCEPT ![p] = [pc |-> "ensure", op |-> "read", key |-> FaqDocsKey(cat), val |-> cat,
                                    useCache |-> TRUE, idx |-> 0, ret |-> NoResult]]
    /\ UNCHANGED <<impl, now, cacheVars, limVars, retryVars, metrics, backendCalls, inFlight>>
    /\ UNCHANGED offVars

\* the backend answers the query of caller p's read
QueryArrives(p) ==
    /\ proc[p].val # Null
    /\ ReadSucceeds(p, ResultOf(proc[p].val))

\* list reads that differ in their query
QueryNext ==
    \/ SvcTick
    \/ \E p \in Callers : \E o \in Limits : ExecuteWithCache(p, AllProductsRead(o))
    \/ \E p \in Callers : \E cat \in Categories : GetFAQs(p, cat)
    \/ \E p \in Callers : GetDocsCheck(p)
    \/ \E p \in Callers : GetDocsResume(p)
    \/ \E p \in Callers : GetDocsFetch(p)
    \/ \E p \in Callers : QueryArrives(p)
    \/ \E p \in Callers : \E code \in SvcCodes : ReadFails(p, code)
    \/ \E p \in Callers : ReadRetries(p)
    \/ \E p \in Callers : Return(p)

SpecQuery == SvcInit /\ [][QueryNext]_vars

\* C27: what a read is given from the cache was fetched by its own query: a read
\* answered at its cache check returns the list the backend gives for the query
\* the read was called with.
C27_OwnQuery ==
    [][\A p \in Callers :
          (Checks(p) /\ proc'[p].pc = "done" /\ proc'[p].ret.kind = "value")
          => proc'[p].ret.val = ResultOf(proc'[p].val)]_vars

\* --------------------------------------------- invalidation of one cache key
\* the invalidation of src/js/firebase.js after a write: this.cache.set(key, null),
\* as updateProduct, voteFAQ and the other writes do it
Invalidate3(k) ==
    /\ impl = "v3"
    /\ cache' = LRUSet3(cache, k, Null, now)
    /\ recency' = Touch(recency, k, cache')
    /\ lastC' = Observed("invalidate", k, Null)
    /\ UNCHANGED <<impl, now, hits, misses, limVars, retryVars, svcVars>>
    /\ UNCHANGED offVars

\* the cache with the calls a service makes on single keys
InvalidateNext ==
    \/ \E k \in Keys : CacheGet(k)
    \/ \E k \in Keys : \E v \in Values : CacheSet(k, v)
    \/ \E k \in Keys : CacheInvalidate(k)
    \/ \E k \in Keys : Invalidate3(k)

SpecInvalidate == CacheInit /\ [][InvalidateNext]_vars

\* C30: the invalidation of one key after a write touches only that key: the
\* cache afterwards is the cache before without the key's entry, the other
\* entries as they were and in their order, and no entry left for the key.
C30_OnlyThatKey ==
    [][lastC'.op = "invalidate" => cache' = MapDelete(cache, lastC'.key)]_vars

====
